---- MODULE Spec2Model ----
(***************************************************************************)
(* The local credential cache of the federated AWS login tool             *)
(* (federated_aws_cli/cache.py) and the --no-cache switch of the command  *)
(* line (mozilla_aws_cli/cli.py), as a state machine.                      *)
(*                                                                         *)
(* The state is the part of the file system the module touches (the       *)
(* configuration directory DOT_DIR, DOT_DIR/cache, and the files below    *)
(* them), the module global `safe`, the clock read by time.time(), the    *)
(* local UTC offset used by datetime.timestamp(), and the outcome of the  *)
(* last call.  Every public function is one action; the outcomes of the   *)
(* system calls it makes (chmod, open, write) are inputs of the action.   *)
(***************************************************************************)
EXTENDS Integers, Sequences, FiniteSets, TLC

VARIABLES
    dirs,       \* DOT_DIR and cache_dir: [exists, mode]
    safe,       \* the module global computed at import (cache.py:310)
    files,      \* path -> [exists, mode, data, mtime]
    now,        \* time.time(), in whole seconds
    utcoffset,  \* local time minus UTC, in seconds (the process's time zone)
    result,     \* the last call: [op, args, ret, raised, log]
    calls,      \* how many calls have been made
    written,    \* role ARN -> what the last successful write_sts_credentials stored
    disabled,   \* whether disable_caching() has been called
    inflight    \* the write another process has open: None or Some([path, payload])

vars == <<dirs, safe, files, now, utcoffset, result, calls, written, disabled, inflight>>

----------------------------------------------------------------------------
(* Program constants *)

CLOCK_SKEW_ALLOWANCE == 300

GROUP_ROLE_MAP_CACHE_TIME == 3600

S_IRWXU == 448

S_IRWXG == 56

S_IRWXO == 7

\* 0o600 and 0o700, the modes the module asks for
MODE_0600 == 384

MODE_0700 == 448

(* Bounds of the model *)

MaxCalls == 3

\* The instants at which the clock is read, in seconds after the start
Instants == {0, 1, 2, 3600, 3601, 3602}

\* The one later instant of the specification of all operations
LaterInstant == GROUP_ROLE_MAP_CACHE_TIME + 1

\* Time zones of the process: west of UTC, UTC, east of UTC.
UtcOffsets == {-3600, 0, 3600}

----------------------------------------------------------------------------
(* Values *)

\* Python's None, and a returned value v, as 0- and 1-tuples.
None == <<>>

Some(v) == <<v>>

\* mode & S_IRWXU, mode & S_IRWXG, mode & S_IRWXO for a 9-bit mode
AndU(mode) == ((mode \div 64) % 8) * 64

AndG(mode) == ((mode \div 8) % 8) * 8

AndO(mode) == mode % 8

\* File contents.  A JSON document is kept as the value it encodes; an empty
\* file (what a truncation leaves) and text that is no document of the
\* expected syntax are values of their own.
EmptyData == [fmt |-> "empty"]

GarbageData == [fmt |-> "garbage"]

\* json.dump(v, f, indent=2); f.write("\n")
json_dump(v) == [fmt |-> "json", val |-> v]

\* json.load(f): the value, or ValueError (json.JSONDecodeError)
json_load(data) ==
    IF data.fmt = "json" THEN [ok |-> TRUE, val |-> data.val]
    ELSE [ok |-> FALSE, val |-> "ValueError"]

NoFile == [exists |-> FALSE, mode |-> 0, data |-> EmptyData, mtime |-> 0]

File(mode, data, mtime) ==
    [exists |-> TRUE, mode |-> mode, data |-> data, mtime |-> mtime]

\* Modes a file can be found with: 0600, 0644.
FileModes == {384, 420}

\* Modes a directory can be found with: 0700, 0755.
DirModes == {448, 493}

----------------------------------------------------------------------------
(* Key derivation: prefix + sha256(identifier).hexdigest().  The digest of  *)
(* s is the value [hexdigest |-> s]: distinct identifiers have distinct    *)
(* digests, and a digest is never equal to an identifier.  The same raw    *)
(* identifiers are used for every kind of artifact.                        *)

sha256(s) == [hexdigest |-> s]

Identifiers == {"x1", "x2"}

Urls == Identifiers

RoleArns == Identifiers

rolemap_path(url) == <<"rolemap_", sha256(url)>>

\* A file name for STS credentials that has the prefix of the role maps
stscreds_path_colliding(role_arn) == <<"rolemap_", sha256(role_arn)>>

stscreds_path(role_arn) == <<"stscreds_", sha256(role_arn)>>

id_path(issuer, client_id) == <<"id_", sha256(issuer), "_", client_id>>

credentials_path == <<"credentials">>

----------------------------------------------------------------------------
(* Outcomes of a function body: the file system it leaves, what it        *)
(* returns, the exception it lets escape ("" for none) and the log lines   *)
(* it writes after the checks of the file.                                *)

Outcome(fs, ret, raised, log) ==
    [files |-> fs, ret |-> ret, raised |-> raised, log |-> log]

\* A repair that also renews the modification time of the file
_fix_permissions_touching(fs, path, permissions, chmod_ok) ==
    IF chmod_ok
    THEN [ret |-> TRUE,
          files |-> [fs EXCEPT ![path].mode = permissions, ![path].mtime = now]]
    ELSE [ret |-> FALSE, files |-> fs]

\* os.chmod(path, permissions) inside try/except OSError
_fix_permissions(fs, path, permissions, chmod_ok) ==
    IF chmod_ok
    THEN [ret |-> TRUE, files |-> [fs EXCEPT ![path].mode = permissions]]
    ELSE [ret |-> FALSE, files |-> fs]

\* A check that finds no file readable by others
_readable_by_nobody(fs, path, fix, chmod_ok) == [ret |-> FALSE, files |-> fs]

\* mode & S_IRWXG or mode & S_IRWXO, repaired with chmod 0600 when fix is set
_readable_by_others(fs, path, fix, chmod_ok) ==
    LET mode == fs[path].mode
        readable_by_others == AndG(mode) # 0 \/ AndO(mode) # 0
    IN  IF readable_by_others /\ fix
        THEN LET r == _fix_permissions(fs, path, MODE_0600, chmod_ok)
             IN  [ret |-> ~r.ret, files |-> r.files]
        ELSE [ret |-> readable_by_others, files |-> fs]

\* What the wrapper returns instead of calling the function
Suppressed == Outcome(files, None, "", <<"Cache directory has invalid permissions">>)

\* A wrapper that calls the function whatever the flag says
_requires_no_check(out) == out

\* A wrapper that calls the function and, when the flag is not set, only
\* drops what it returns
_requires_return_dropped(out) ==
    IF ~safe THEN [out EXCEPT !.ret = None] ELSE out

\* The decorator: the function is called only when the module global is set
_requires_safe_cache_dir(out) ==
    IF ~safe THEN Suppressed ELSE out

\* Outcomes of the system calls behind _safe_write
WriteIo == {"ok", "open_fails", "write_fails"}

\* os.fdopen(os.open(path, O_WRONLY | O_CREAT | O_TRUNC, 0o600), "w"), the
\* writes of the with-body, f.close().  The mode argument of os.open is used
\* only when the call creates the file (the umask can only clear bits of
\* it); O_TRUNC empties an existing file and keeps its mode.  A write that
\* fails after the open leaves the emptied file.
_safe_write(fs, path, payload, io) ==
    IF io = "open_fails" THEN [ok |-> FALSE, files |-> fs]
    ELSE [ok |-> io = "ok",
          files |-> [fs EXCEPT ![path] =
              File(IF fs[path].exists THEN fs[path].mode ELSE MODE_0600,
                   IF io = "ok" THEN payload ELSE EmptyData,
                   now)]]

----------------------------------------------------------------------------
(* Directory verification and the module global `safe` *)

NoDir == [exists |-> FALSE, mode |-> 0]

\* os.mkdir(path) creates the directory with mode 0777 & ~umask: 0755
MkdirMode == 493

\* A verification that reports a directory it created as safe without
\* looking at the outcome of chmod
verify_dir_permissions_unrepaired(d, mkdir_ok, chmod_ok) ==
    IF d.exists
    THEN [ret |-> AndU(d.mode) = 448 /\ AndG(d.mode) = 0 /\ AndO(d.mode) = 0,
          dir |-> d]
    ELSE IF ~mkdir_ok THEN [ret |-> FALSE, dir |-> d]
    ELSE [ret |-> TRUE,
          dir |-> [exists |-> TRUE,
                   mode |-> IF chmod_ok THEN MODE_0700 ELSE MkdirMode]]

\* verify_dir_permissions(path): the verdict and the directory it leaves
verify_dir_permissions(d, mkdir_ok, chmod_ok) ==
    IF d.exists
    THEN [ret |-> AndU(d.mode) = 448 /\ AndG(d.mode) = 0 /\ AndO(d.mode) = 0,
          dir |-> d]
    ELSE IF ~mkdir_ok THEN [ret |-> FALSE, dir |-> d]
    ELSE IF chmod_ok THEN [ret |-> TRUE, dir |-> [exists |-> TRUE, mode |-> MODE_0700]]
    ELSE [ret |-> FALSE, dir |-> [exists |-> TRUE, mode |-> MkdirMode]]

\* safe = verify_dir_permissions(DOT_DIR) and verify_dir_permissions(cache_dir):
\* the second call is made only when the first returns True
module_import(d0, mkdir_ok, chmod_ok) ==
    LET a == verify_dir_permissions(d0.DOT_DIR, mkdir_ok, chmod_ok)
        b == verify_dir_permissions(d0.cache_dir, mkdir_ok, chmod_ok)
    IN  IF a.ret
        THEN [safe |-> b.ret, dirs |-> [DOT_DIR |-> a.dir, cache_dir |-> b.dir]]
        ELSE [safe |-> FALSE, dirs |-> [DOT_DIR |-> a.dir, cache_dir |-> d0.cache_dir]]

\* The directories the process can find at start: cache_dir lies in DOT_DIR
DirStates == {NoDir} \cup {[exists |-> TRUE, mode |-> m] : m \in DirModes}

StartDirs ==
    {d \in [DOT_DIR : DirStates, cache_dir : DirStates] :
        ~d.DOT_DIR.exists => ~d.cache_dir.exists}

----------------------------------------------------------------------------
(* The clock *)

Tick(instants) ==
    /\ \E t \in instants : t > now /\ now' = t
    /\ UNCHANGED <<dirs, safe, files, utcoffset, result, calls, written, disabled,
                   inflight>>

\* A call of a public function: its outcome becomes the state
Call(op, args, out) ==
    /\ calls < MaxCalls
    /\ calls' = calls + 1
    /\ files' = out.files
    /\ result' = [op |-> op, args |-> args, ret |-> out.ret,
                  raised |-> out.raised, log |-> out.log,
                  again |-> /\ op = result.op
                            /\ args = result.args
                            /\ result.ret # None]
    /\ UNCHANGED <<dirs, safe, now, utcoffset, disabled, inflight>>

\* Before the first call.  The field again says that the call before the
\* last one was a call of the same function with the same arguments and
\* returned a value.
NoResult ==
    [op |-> "", args |-> <<>>, ret |-> None, raised |-> "", log |-> <<>>,
     again |-> FALSE]

----------------------------------------------------------------------------
(* STS credentials *)

\* An Expiration string: the UTC instant t in the wire format
\* YYYY-MM-DDTHH:MM:SSZ
ZTime(t) == [wire |-> "Z", t |-> t]

\* The instant the credentials of the model expire
ExpirationInstant == CLOCK_SKEW_ALLOWANCE + 2

\* The dictionaries handed to write_sts_credentials: two sets of credentials
\* that expire at the same instant, and one without an Expiration
StsCreds ==
    {[Expiration |-> ZTime(ExpirationInstant), AccessKeyId |-> "AK1"],
     [Expiration |-> ZTime(ExpirationInstant), AccessKeyId |-> "AK2"],
     [AccessKeyId |-> "AK3"]}

\* datetime.datetime.strptime(s, '%Y-%m-%dT%H:%M:%SZ'): a naive datetime
\* holding the fields of the string, or ValueError
strptime(s) ==
    IF s.wire = "Z" THEN [ok |-> TRUE, val |-> [naive |-> s.t]]
    ELSE [ok |-> FALSE, val |-> [naive |-> 0]]

\* timestamp(dt) for a naive datetime: dt.timestamp() (and strftime('%s'))
\* read the fields as local time
timestamp(dt) == dt.naive - utcoffset

read_sts_credentials_func(role_arn, chmod_ok, open_ok) ==
    LET path == stscreds_path(role_arn)
        g == _readable_by_others(files, path, TRUE, chmod_ok)
    IN  IF ~files[path].exists THEN Outcome(files, None, "", <<>>)
        ELSE IF g.ret THEN Outcome(g.files, None, "", <<>>)
        ELSE IF ~open_ok
        THEN Outcome(g.files, None, "", <<"Unable to read STS credentials">>)
        ELSE LET sts == json_load(g.files[path].data)
             IN  IF ~sts.ok THEN Outcome(g.files, None, "ValueError", <<>>)
                 ELSE IF "Expiration" \notin DOMAIN sts.val
                 THEN Outcome(g.files, None, "KeyError", <<>>)
                 ELSE LET exp == strptime(sts.val.Expiration)
                      IN  IF ~exp.ok THEN Outcome(g.files, None, "ValueError", <<>>)
                          ELSE IF timestamp(exp.val) - now > CLOCK_SKEW_ALLOWANCE
                          THEN Outcome(g.files, Some(sts.val), "", <<"Using STS credentials">>)
                          ELSE Outcome(g.files, None, "",
                                       <<"Cached STS credentials have expired.">>)

read_sts_credentials(arns) ==
    \E role_arn \in arns, chmod_ok \in BOOLEAN, open_ok \in BOOLEAN :
        /\ Call("read_sts_credentials", <<role_arn>>,
                _requires_safe_cache_dir(
                    read_sts_credentials_func(role_arn, chmod_ok, open_ok)))
        /\ UNCHANGED written

write_sts_credentials_func(role_arn, sts_creds, io) ==
    LET path == stscreds_path(role_arn)
        w == _safe_write(files, path, json_dump(sts_creds), io)
    IN  Outcome(w.files, None, "",
                IF w.ok THEN <<"Successfully wrote STS credentials">>
                ELSE <<"Unable to write STS credentials">>)

write_sts_credentials(arns, creds) ==
    \E role_arn \in arns, sts_creds \in creds, io \in WriteIo :
        LET out == _requires_safe_cache_dir(
                       write_sts_credentials_func(role_arn, sts_creds, io))
        IN  /\ Call("write_sts_credentials", <<role_arn>>, out)
            /\ written' =
                 IF out.log = <<"Successfully wrote STS credentials">>
                 THEN [written EXCEPT ![role_arn] = Some(sts_creds)]
                 ELSE written

----------------------------------------------------------------------------
(* Role maps *)

\* The JSON documents handed to write_group_role_map
RoleMaps == {"roles1", "roles2"}

\* A read that treats a file of exactly GROUP_ROLE_MAP_CACHE_TIME seconds
\* as expired
read_group_role_map_expired_at_ttl(url, chmod_ok, open_ok) ==
    LET path == rolemap_path(url)
        g == _readable_by_others(files, path, TRUE, chmod_ok)
    IN  IF ~files[path].exists THEN Outcome(files, None, "", <<>>)
        ELSE IF g.ret THEN Outcome(g.files, None, "", <<>>)
        ELSE IF now - g.files[path].mtime >= GROUP_ROLE_MAP_CACHE_TIME
        THEN Outcome(g.files, None, "", <<>>)
        ELSE IF ~open_ok
        THEN Outcome(g.files, None, "", <<"Unable to read role map">>)
        ELSE LET role_map == json_load(g.files[path].data)
             IN  IF ~role_map.ok THEN Outcome(g.files, None, "ValueError", <<>>)
                 ELSE Outcome(g.files, Some(role_map.val), "",
                              <<"Using cached role map">>)

read_group_role_map_func(url, chmod_ok, open_ok) ==
    LET path == rolemap_path(url)
        g == _readable_by_others(files, path, TRUE, chmod_ok)
    IN  IF ~files[path].exists THEN Outcome(files, None, "", <<>>)
        ELSE IF g.ret THEN Outcome(g.files, None, "", <<>>)
        ELSE IF now - g.files[path].mtime > GROUP_ROLE_MAP_CACHE_TIME
        THEN Outcome(g.files, None, "", <<>>)
        ELSE IF ~open_ok
        THEN Outcome(g.files, None, "", <<"Unable to read role map">>)
        ELSE LET role_map == json_load(g.files[path].data)
             IN  IF ~role_map.ok THEN Outcome(g.files, None, "ValueError", <<>>)
                 ELSE Outcome(g.files, Some(role_map.val), "",
                              <<"Using cached role map">>)

read_group_role_map(urls) ==
    \E url \in urls, chmod_ok \in BOOLEAN, open_ok \in BOOLEAN :
        /\ Call("read_group_role_map", <<url>>,
                _requires_safe_cache_dir(
                    read_group_role_map_func(url, chmod_ok, open_ok)))
        /\ UNCHANGED written

write_group_role_map_func(url, role_map, io) ==
    LET path == rolemap_path(url)
        w == _safe_write(files, path, json_dump(role_map), io)
    IN  Outcome(w.files, None, "",
                IF w.ok THEN <<"Successfully wrote role map">>
                ELSE <<"Unable to write role map">>)

write_group_role_map(urls, role_maps) ==
    \E url \in urls, role_map \in role_maps, io \in WriteIo :
        /\ Call("write_group_role_map", <<url>>,
                _requires_safe_cache_dir(
                    write_group_role_map_func(url, role_map, io)))
        /\ UNCHANGED written

----------------------------------------------------------------------------
(* ID tokens *)

Issuers == {"x1"}

ClientIds == {"c1"}

\* Key material handed to read_id_token; None is the default
Keys == {Some("key1"), None}

\* A token far beyond every instant of the model
FarFuture == 100000

\* A JSON web token: who signed it, its aud claim and its exp claim (if any)
Jwt(signed_by, aud, exp) == [signed_by |-> signed_by, aud |-> aud, exp |-> exp]

GoodJwt == Jwt("key1", "c1", Some(ExpirationInstant))

ForgedJwt == Jwt("attacker", "c1", Some(FarFuture))

OtherAudJwt == Jwt("key1", "c2", Some(FarFuture))

NoExpJwt == Jwt("key1", "c1", None)

\* What is handed to write_id_token: the token endpoint's response (a dict
\* with or without an id_token entry), or a bare token string
Tokens ==
    {[dict |-> TRUE, val |-> [id_token |-> j]] : j \in {GoodJwt, ForgedJwt, OtherAudJwt, NoExpJwt}}
        \cup {[dict |-> TRUE, val |-> [error |-> "access_denied"]]}
        \cup {[dict |-> FALSE, val |-> GoodJwt]}

\* jose.jwt.decode(token, key, audience): the claims, or a JOSEError for a
\* signature that the key does not verify, an expired token or another
\* audience
jwt_decode(token, key, audience) ==
    IF key # Some(token.signed_by) THEN None
    ELSE IF token.exp # None /\ token.exp[1] < now THEN None
    ELSE IF token.aud # audience THEN None
    ELSE Some([aud |-> token.aud, exp |-> token.exp])

\* A decode that accepts every token
jwt_decode_unverified(token, key, audience) ==
    Some([aud |-> token.aud, exp |-> token.exp])

\* jwt.decode(token=token["id_token"], key=key, audience=client_id) inside
\* try/except JOSEError
decode_id_token(token, key, audience) == jwt_decode(token, key, audience)

read_id_token_func(issuer, client_id, key, chmod_ok, open_ok) ==
    IF issuer = None \/ client_id = None THEN Outcome(files, None, "", <<>>)
    ELSE
    LET path == id_path(issuer[1], client_id[1])
        g == _readable_by_others(files, path, TRUE, chmod_ok)
        h == _readable_by_others(g.files, path, TRUE, chmod_ok)
    IN  IF ~files[path].exists THEN Outcome(files, None, "", <<>>)
        ELSE IF g.ret THEN Outcome(g.files, None, "", <<>>)
        ELSE IF h.ret
        THEN Outcome(h.files, None, "", <<"Error: id token has improper permissions!">>)
        ELSE IF ~open_ok THEN Outcome(h.files, None, "", <<"Unable to read id token">>)
        ELSE LET token == json_load(h.files[path].data)
             IN  IF ~token.ok THEN Outcome(h.files, None, "ValueError", <<>>)
                 ELSE IF "id_token" \notin DOMAIN token.val
                 THEN Outcome(h.files, None, "KeyError", <<>>)
                 ELSE LET id_token_dict ==
                              decode_id_token(token.val.id_token, key, client_id[1])
                      IN  IF id_token_dict = None THEN Outcome(h.files, None, "", <<>>)
                          ELSE IF id_token_dict[1].exp = None
                          THEN Outcome(h.files, None, "TypeError", <<>>)
                          ELSE IF id_token_dict[1].exp[1] - now > CLOCK_SKEW_ALLOWANCE
                          THEN Outcome(h.files, Some(token.val), "",
                                       <<"Successfully read cached id token">>)
                          ELSE Outcome(h.files, None, "", <<"Cached id token has expired">>)

OrNone(S) == {None} \cup {Some(x) : x \in S}

read_id_token(issuers, client_ids) ==
    \E issuer \in issuers, client_id \in client_ids, key \in Keys,
       chmod_ok \in BOOLEAN, open_ok \in BOOLEAN :
        /\ Call("read_id_token", <<issuer, client_id, key>>,
                _requires_safe_cache_dir(
                    read_id_token_func(issuer, client_id, key, chmod_ok, open_ok)))
        /\ UNCHANGED written

\* isinstance(token, dict): json.dump(token, f, indent=2); otherwise the
\* string is written as it is
token_payload(token) ==
    IF token.dict THEN json_dump(token.val) ELSE [fmt |-> "raw", val |-> token.val]

write_id_token_func(issuer, client_id, token, io) ==
    IF issuer = None \/ client_id = None THEN Outcome(files, None, "", <<>>)
    ELSE
    LET path == id_path(issuer[1], client_id[1])
        w == _safe_write(files, path, token_payload(token), io)
    IN  Outcome(w.files, None, "",
                IF w.ok THEN <<"Successfully wrote token">>
                ELSE <<"Unable to write id token">>)

write_id_token(issuers, client_ids, tokens) ==
    \E issuer \in issuers, client_id \in client_ids, token \in tokens,
       io \in WriteIo :
        /\ Call("write_id_token", <<issuer, client_id>>,
                _requires_safe_cache_dir(
                    write_id_token_func(issuer, client_id, token, io)))
        /\ UNCHANGED written

----------------------------------------------------------------------------
(* The AWS shared credentials file *)

\* A ConfigParser: its sections in order, each a name and its options.  The
\* order of the options inside a section is not kept.  Option names in a
\* file are in lower case, as every ConfigParser writes them.
Section(name, opts) == [name |-> name, opts |-> opts]

SectionNames == {"B", "a", "b"}

\* ord() of a section name: Python compares strings by code point
CodePoint(name) == CASE name = "B" -> 66 [] name = "a" -> 97 [] name = "b" -> 98

\* ConfigParser.optionxform: option names are lower-cased
optionxform(key) == CASE key = "K2" -> "k2" [] OTHER -> key

\* The options of one section of the input
OptionInputs == {"k1" :> "v1", "k1" :> "v2", "K2" :> "v1"}

\* The dictionaries handed to write_aws_shared_credentials
CredentialInputs ==
    {n :> o : n \in SectionNames, o \in OptionInputs}
        \cup {("a" :> o) @@ ("b" :> o) : o \in OptionInputs}

SectionNamesOf(config) == {config[i].name : i \in DOMAIN config}

IndexOf(config, name) == CHOOSE i \in DOMAIN config : config[i].name = name

\* config.write(f): an empty ConfigParser writes nothing
ini_write(config) ==
    IF config = <<>> THEN EmptyData ELSE [fmt |-> "ini", val |-> config]

\* config.read_file(f): the sections, or a configparser.Error
\* (MissingSectionHeaderError) for text that is no INI file
ini_read(data) ==
    IF data.fmt = "ini" THEN [ok |-> TRUE, val |-> data.val]
    ELSE IF data.fmt = "empty" THEN [ok |-> TRUE, val |-> <<>>]
    ELSE [ok |-> FALSE, val |-> <<>>]

read_aws_shared_credentials_func(chmod_ok, open_ok) ==
    LET path == credentials_path
        g == _readable_by_others(files, path, TRUE, chmod_ok)
    IN  IF ~files[path].exists THEN Outcome(files, Some(<<>>), "", <<>>)
        ELSE IF g.ret THEN Outcome(g.files, Some(<<>>), "", <<>>)
        ELSE IF ~open_ok
        THEN Outcome(g.files, Some(<<>>), "", <<"Unable to read credentials file">>)
        ELSE LET config == ini_read(g.files[path].data)
             IN  IF ~config.ok
                 THEN Outcome(g.files, None, "configparser.Error", <<>>)
                 ELSE Outcome(g.files, Some(config.val), "",
                              <<"Trying to read credentials file">>)

read_aws_shared_credentials ==
    \E chmod_ok \in BOOLEAN, open_ok \in BOOLEAN :
        /\ Call("read_aws_shared_credentials", <<>>,
                _requires_safe_cache_dir(
                    read_aws_shared_credentials_func(chmod_ok, open_ok)))
        /\ UNCHANGED written

\* A section that is replaced by the items of the input
set_options_replacing(opts, new) ==
    [k \in {optionxform(key) : key \in DOMAIN new} |->
        new[CHOOSE key \in DOMAIN new : optionxform(key) = k]]

\* config.set(section, key, value) for every item of one input section
set_options(opts, new) ==
    [k \in DOMAIN opts \cup {optionxform(key) : key \in DOMAIN new} |->
        IF \E key \in DOMAIN new : optionxform(key) = k
        THEN new[CHOOSE key \in DOMAIN new : optionxform(key) = k]
        ELSE opts[k]]

\* A merge step that adds a section without looking for one of that name
add_credentials_appending(config, section, new) ==
    Append(config, Section(section, set_options(<<>>, new)))

\* if not config.has_section(section): config.add_section(section), then
\* config.set for each item
add_credentials(config, section, new) ==
    IF section \in SectionNamesOf(config)
    THEN [config EXCEPT ![IndexOf(config, section)].opts = set_options(@, new)]
    ELSE Append(config, Section(section, set_options(<<>>, new)))

RECURSIVE add_all(_, _, _)
\* for section in credentials.keys(): ...
add_all(config, credentials, todo) ==
    IF todo = {} THEN config
    ELSE LET section == CHOOSE n \in todo :
                            \A m \in todo : CodePoint(n) <= CodePoint(m)
         IN  add_all(add_credentials(config, section, credentials[section]),
                     credentials, todo \ {section})

RECURSIVE insert_sorted(_, _)
insert_sorted(sorted_config, section) ==
    IF sorted_config = <<>> THEN <<section>>
    ELSE IF CodePoint(section.name) < CodePoint(Head(sorted_config).name)
    THEN <<section>> \o sorted_config
    ELSE <<Head(sorted_config)>> \o insert_sorted(Tail(sorted_config), section)

\* A sort that leaves the sections in the order it finds them
unsorted_sections(config) == config

RECURSIVE sort_sections(_)
\* OrderedDict(sorted(viewitems(config._sections), key=lambda t: t[0]))
sort_sections(config) ==
    IF config = <<>> THEN <<>>
    ELSE insert_sorted(sort_sections(Tail(config)), Head(config))

\* A merge that starts from no sections, whatever the file holds
merged_from_nothing(config, credentials) ==
    sort_sections(add_all(<<>>, credentials, DOMAIN credentials))

\* The sections after the merge and the sort
merged(config, credentials) ==
    sort_sections(add_all(config, credentials, DOMAIN credentials))

write_aws_shared_credentials_func(credentials, chmod_ok, open_ok, io) ==
    LET path == credentials_path
        r == _requires_safe_cache_dir(
                 read_aws_shared_credentials_func(chmod_ok, open_ok))
    IN  IF r.raised # "" THEN r
        ELSE IF r.ret = None THEN Outcome(r.files, None, "AttributeError", <<>>)
        ELSE LET config == merged(r.ret[1], credentials)
                 w == _safe_write(r.files, path, ini_write(config), io)
             IN  IF w.ok
                 THEN Outcome(w.files, Some(path), "",
                              r.log \o <<"Successfully wrote AWS shared credentials">>)
                 ELSE Outcome(w.files, None, "",
                              r.log \o <<"Unable to write AWS shared credentials">>)

write_aws_shared_credentials(inputs) ==
    \E credentials \in inputs, chmod_ok \in BOOLEAN, open_ok \in BOOLEAN,
       io \in WriteIo :
        /\ Call("write_aws_shared_credentials", <<credentials>>,
                _requires_safe_cache_dir(
                    write_aws_shared_credentials_func(
                        credentials, chmod_ok, open_ok, io)))
        /\ UNCHANGED written

----------------------------------------------------------------------------
(* The --no-cache option *)

\* disable_caching(): from now on the decorator suppresses every call
disable_caching ==
    /\ safe' = FALSE
    /\ disabled' = TRUE
    /\ UNCHANGED <<dirs, files, now, utcoffset, result, calls, written, inflight>>

\* The callback of --no-cache: if disabled: disable_caching()
validate_disable_caching ==
    \E flag \in BOOLEAN :
        IF flag THEN disable_caching ELSE UNCHANGED vars

----------------------------------------------------------------------------
(* Specifications *)

AllPaths ==
    {rolemap_path(u) : u \in Urls} \cup {stscreds_path(a) : a \in RoleArns}
        \cup {id_path(i, c) : i \in Issuers, c \in ClientIds}
        \cup {credentials_path}

\* The state after import: the directories found are verified (and created),
\* which sets `safe`; nothing has been called yet.
InitCommon(offsets) ==
    /\ \E d0 \in StartDirs, mkdir_ok \in BOOLEAN, chmod_ok \in BOOLEAN :
          LET m == module_import(d0, mkdir_ok, chmod_ok)
          IN  dirs = m.dirs /\ safe = m.safe
    /\ now = 0
    /\ utcoffset \in offsets
    /\ result = NoResult
    /\ calls = 0
    /\ written = [a \in RoleArns |-> None]
    /\ disabled = FALSE
    /\ inflight = None

\* The files found at start are those of an earlier run or of another
\* program: at most one per specification below, under the first identifier.
\* A file can only be found in a directory that exists.
FoundAt(path, found) ==
    \E f \in {NoFile} \cup found :
        files = [p \in AllPaths |->
                    IF p = path /\ dirs.DOT_DIR.exists
                       /\ (p # credentials_path => dirs.cache_dir.exists)
                    THEN f ELSE NoFile]

FoundSts ==
    json_dump([Expiration |-> ZTime(ExpirationInstant), AccessKeyId |-> "AK1"])

FoundToken == json_dump([id_token |-> GoodJwt])

FoundCredentials ==
    {ini_write(<<Section("a", "k1" :> "v1")>>),
     ini_write(<<Section("b", "k1" :> "v1"), Section("a", "k2" :> "v2")>>),
     GarbageData}

FoundModes(data) == {File(m, data, 0) : m \in FileModes}

(* STS credentials alone *)

InitSts ==
    /\ InitCommon(UtcOffsets)
    /\ FoundAt(stscreds_path("x1"),
               FoundModes(FoundSts) \cup {File(MODE_0600, EmptyData, 0)})

NextSts ==
    \/ Tick(Instants)
    \/ read_sts_credentials(RoleArns)
    \/ write_sts_credentials(RoleArns, StsCreds)

SpecSts == InitSts /\ [][NextSts]_vars

(* Role maps alone *)

InitRoleMap ==
    /\ InitCommon({0})
    /\ FoundAt(rolemap_path("x1"),
               FoundModes(json_dump("roles1")) \cup {File(MODE_0600, EmptyData, 0)})

NextRoleMap ==
    \/ Tick(Instants)
    \/ read_group_role_map(Urls)
    \/ write_group_role_map(Urls, RoleMaps)

SpecRoleMap == InitRoleMap /\ [][NextRoleMap]_vars

(* ID tokens alone *)

InitIdToken ==
    /\ InitCommon({0})
    /\ FoundAt(id_path("x1", "c1"),
               FoundModes(FoundToken) \cup {File(MODE_0600, EmptyData, 0)})

NextIdToken ==
    \/ Tick(Instants)
    \/ read_id_token(OrNone(Issuers), OrNone(ClientIds))
    \/ write_id_token(OrNone(Issuers), OrNone(ClientIds), Tokens)

SpecIdToken == InitIdToken /\ [][NextIdToken]_vars

(* The shared credentials file alone; its operations do not read the clock *)

InitShared ==
    /\ InitCommon({0})
    /\ FoundAt(credentials_path,
               UNION {FoundModes(d) : d \in FoundCredentials})

NextShared ==
    \/ read_aws_shared_credentials
    \/ write_aws_shared_credentials(CredentialInputs)

SpecShared == InitShared /\ [][NextShared]_vars

(* Every operation, each on the first identifier, and the --no-cache option *)

Init ==
    /\ InitCommon({0})
    /\ \E populated \in BOOLEAN :
          files = [p \in AllPaths |->
                      IF ~populated \/ ~dirs.cache_dir.exists THEN NoFile
                      ELSE IF p = stscreds_path("x1") THEN File(420, FoundSts, 0)
                      ELSE IF p = rolemap_path("x1")
                      THEN File(420, json_dump("roles1"), 0)
                      ELSE IF p = id_path("x1", "c1") THEN File(420, FoundToken, 0)
                      ELSE IF p = credentials_path
                      THEN File(420, ini_write(<<Section("a", "k1" :> "v1")>>), 0)
                      ELSE NoFile]

Next ==
    \/ Tick({LaterInstant})
    \/ validate_disable_caching
    \/ read_sts_credentials({"x1"})
    \/ write_sts_credentials({"x1"},
           {[Expiration |-> ZTime(ExpirationInstant), AccessKeyId |-> "AK2"]})
    \/ read_group_role_map({"x1"})
    \/ write_group_role_map({"x1"}, {"roles2"})
    \/ read_id_token({Some("x1")}, {Some("c1")})
    \/ write_id_token({Some("x1")}, {Some("c1")},
           {[dict |-> TRUE, val |-> [id_token |-> ForgedJwt]]})
    \/ read_aws_shared_credentials
    \/ write_aws_shared_credentials({"b" :> ("k1" :> "v2")})

Spec == Init /\ [][Next]_vars

----------------------------------------------------------------------------
(* A second process of the same program writing STS credentials while this  *)
(* one reads.  Its _safe_write is taken step by step: os.open truncates the *)
(* file, and the text that json.dump and f.write hand to the buffered file  *)
(* object reaches the file when the with-block ends and f.close() runs.     *)

\* os.fdopen(os.open(path, O_WRONLY | O_CREAT | O_TRUNC, 0o600), "w") in the
\* other process
other_open(arns, creds) ==
    \E role_arn \in arns, sts_creds \in creds :
        LET path == stscreds_path(role_arn)
        IN  /\ safe
            /\ inflight = None
            /\ files' = [files EXCEPT ![path] =
                            File(IF files[path].exists THEN files[path].mode
                                 ELSE MODE_0600,
                                 EmptyData, now)]
            /\ inflight' = Some([path |-> path, payload |-> json_dump(sts_creds)])
            /\ UNCHANGED <<dirs, safe, now, utcoffset, result, calls, written,
                           disabled>>

\* json.dump(sts_creds, f); f.write("\n"); f.close() in the other process
other_close ==
    /\ inflight # None
    /\ files' = [files EXCEPT ![inflight[1].path] =
                    [@ EXCEPT !.data = inflight[1].payload, !.mtime = now]]
    /\ inflight' = None
    /\ UNCHANGED <<dirs, safe, now, utcoffset, result, calls, written, disabled>>

InitConcurrent ==
    /\ InitCommon({0})
    /\ FoundAt(stscreds_path("x1"), FoundModes(FoundSts))

NextConcurrent ==
    \/ Tick(Instants)
    \/ read_sts_credentials({"x1"})
    \/ other_open({"x1"},
           {[Expiration |-> ZTime(ExpirationInstant), AccessKeyId |-> "AK2"]})
    \/ other_close

SpecConcurrent == InitConcurrent /\ [][NextConcurrent]_vars

----------------------------------------------------------------------------
(* The mode of DOT_DIR and of cache_dir is what os.stat reports when it is  *)
(* asked; the user or another program can change it while this process     *)
(* runs.                                                                    *)

chmod_dir ==
    \E d \in {"DOT_DIR", "cache_dir"}, m \in DirModes :
        /\ dirs[d].exists
        /\ dirs[d].mode # m
        /\ dirs' = [dirs EXCEPT ![d].mode = m]
        /\ UNCHANGED <<safe, files, now, utcoffset, result, calls, written,
                       disabled, inflight>>

InitMidRun ==
    /\ InitCommon({0})
    /\ FoundAt(stscreds_path("x1"), FoundModes(FoundSts))

NextMidRun ==
    \/ chmod_dir
    \/ read_sts_credentials(RoleArns)
    \/ write_sts_credentials(RoleArns,
           {[Expiration |-> ZTime(ExpirationInstant), AccessKeyId |-> "AK2"]})

SpecMidRun == InitMidRun /\ [][NextMidRun]_vars

----------------------------------------------------------------------------
(* verify_dir_permissions on its own, for a directory of any mode *)

\* Every mode of nine permission bits
AllModes == 0 .. 511

\* The lines verify_dir_permissions and _fix_permissions log
verify_log(d, mkdir_ok, chmod_ok) ==
    IF d.exists THEN <<"Directory permissions are">>
    ELSE IF ~mkdir_ok THEN <<"Unable to create directory">>
    ELSE IF chmod_ok THEN <<"Successfully repaired permissions">>
    ELSE <<"Failed to repair permissions">>

\* One call of verify_dir_permissions(path).  os.mkdir of cache_dir fails
\* when DOT_DIR does not exist.
verify_dir ==
    \E d \in {"DOT_DIR", "cache_dir"}, mkdir_ok \in BOOLEAN, chmod_ok \in BOOLEAN :
        LET r == verify_dir_permissions(dirs[d], mkdir_ok, chmod_ok)
        IN  /\ calls < MaxCalls
            /\ (d = "cache_dir" /\ ~dirs.DOT_DIR.exists) => ~mkdir_ok
            /\ calls' = calls + 1
            /\ dirs' = [dirs EXCEPT ![d] = r.dir]
            /\ result' = [op |-> "verify_dir_permissions", args |-> <<d>>,
                          ret |-> Some(r.ret), raised |-> "",
                          log |-> verify_log(dirs[d], mkdir_ok, chmod_ok),
                          again |-> /\ result.op = "verify_dir_permissions"
                                    /\ result.args = <<d>>]
            /\ UNCHANGED <<safe, files, now, utcoffset, written, disabled,
                           inflight>>

\* Before the module global is computed: DOT_DIR is missing or has any mode
InitVerify ==
    /\ dirs \in {d \in [DOT_DIR : {NoDir} \cup {[exists |-> TRUE, mode |-> m] : m \in AllModes},
                         cache_dir : DirStates] :
                    ~d.DOT_DIR.exists => ~d.cache_dir.exists}
    /\ safe = FALSE
    /\ files = [p \in AllPaths |-> NoFile]
    /\ now = 0
    /\ utcoffset = 0
    /\ result = NoResult
    /\ calls = 0
    /\ written = [a \in RoleArns |-> None]
    /\ disabled = FALSE
    /\ inflight = None

NextVerify == verify_dir

SpecVerify == InitVerify /\ [][NextVerify]_vars

----------------------------------------------------------------------------
(* The writes of the three kinds of cache entry side by side, for the same  *)
(* raw identifiers                                                          *)

\* A cache that is empty, or holds one entry of each kind and a credentials
\* file, all with mode 0600
InitIsolation ==
    /\ InitCommon({0})
    /\ \E populated \in BOOLEAN :
          files = [p \in AllPaths |->
                      IF ~populated \/ ~dirs.cache_dir.exists THEN NoFile
                      ELSE IF p = stscreds_path("x1") THEN File(MODE_0600, FoundSts, 0)
                      ELSE IF p = rolemap_path("x1")
                      THEN File(MODE_0600, json_dump("roles1"), 0)
                      ELSE IF p = id_path("x1", "c1")
                      THEN File(MODE_0600, FoundToken, 0)
                      ELSE IF p = credentials_path
                      THEN File(MODE_0600, ini_write(<<Section("a", "k1" :> "v1")>>), 0)
                      ELSE NoFile]

NextIsolation ==
    \/ write_sts_credentials(RoleArns,
           {[Expiration |-> ZTime(ExpirationInstant), AccessKeyId |-> "AK2"]})
    \/ write_group_role_map(Urls, {"roles2"})
    \/ write_id_token({Some("x1")}, {Some("c1")},
           {[dict |-> TRUE, val |-> [id_token |-> NoExpJwt]]})

SpecIsolation == InitIsolation /\ [][NextIsolation]_vars

----------------------------------------------------------------------------
(* Properties *)

OwnerOnly(mode) == AndG(mode) = 0 /\ AndO(mode) = 0

\* The step is a call of the public function op
IsCall(op) == calls' = calls + 1 /\ result'.op = op

ReadOps ==
    {"read_sts_credentials", "read_group_role_map", "read_id_token",
     "read_aws_shared_credentials"}

WriteOps ==
    {"write_sts_credentials", "write_group_role_map", "write_id_token",
     "write_aws_shared_credentials"}

WroteLines ==
    {"Successfully wrote STS credentials", "Successfully wrote role map",
     "Successfully wrote token", "Successfully wrote AWS shared credentials"}

Lines(log) == {log[i] : i \in DOMAIN log}

\* The file a call works on
PathOf(op, args) ==
    CASE op \in {"read_sts_credentials", "write_sts_credentials"} ->
             stscreds_path(args[1])
      [] op \in {"read_group_role_map", "write_group_role_map"} ->
             rolemap_path(args[1])
      [] op \in {"read_id_token", "write_id_token"} ->
             id_path(args[1][1], args[2][1])
      [] OTHER -> credentials_path

\* C1: while the module's safe flag is false, every call of a cache
\* operation returns None, raises nothing, and leaves every file and both
\* directories as they were.
C1_FailClosed ==
    [][(~safe /\ calls' # calls) =>
          /\ files' = files
          /\ dirs' = dirs
          /\ result'.ret = None
          /\ result'.raised = ""]_vars

\* A write of STS credentials was suppressed because the cache directory
\* was found group- or other-accessible at import.
C1_Witness ==
    /\ ~safe
    /\ ~disabled
    /\ dirs.cache_dir.exists
    /\ ~OwnerOnly(dirs.cache_dir.mode)
    /\ result.op = "write_sts_credentials"
    /\ result.ret = None
    /\ ~files[stscreds_path("x1")].exists

\* C2 (as claimed): after every write that completed, the written file has
\* no group or other permission bit, whether it was created by the write or
\* existed before it.
C2_WrittenFileOwnerOnly ==
    (/\ result.op \in WriteOps
     /\ Lines(result.log) \cap WroteLines # {})
        => OwnerOnly(files[PathOf(result.op, result.args)].mode)

\* C3 (amended): a read of a role map on a safe cache root is a hit only if
\* the file is at most GROUP_ROLE_MAP_CACHE_TIME seconds old, and then it
\* returns the stored document; it is a hit whenever the file is that young,
\* passes the permission check, and is read as a JSON document without an
\* I/O error.  In particular a file of exactly 3600 seconds is a hit.
C3_RoleMapTtl ==
    [][IsCall("read_group_role_map") =>
          LET path == rolemap_path(result'.args[1])
              f == files[path]
              age == now - f.mtime
          IN  /\ result'.ret # None =>
                    /\ safe /\ f.exists /\ f.data.fmt = "json"
                    /\ age <= GROUP_ROLE_MAP_CACHE_TIME
                    /\ result'.ret = Some(f.data.val)
              /\ (/\ safe /\ f.exists /\ f.data.fmt = "json"
                  /\ OwnerOnly(files'[path].mode)
                  /\ "Unable to read role map" \notin Lines(result'.log)
                  /\ age <= GROUP_ROLE_MAP_CACHE_TIME)
                    => result'.ret = Some(f.data.val)
              /\ (f.exists /\ age > GROUP_ROLE_MAP_CACHE_TIME)
                    => result'.ret = None /\ result'.raised = ""]_vars

\* A role map is served exactly GROUP_ROLE_MAP_CACHE_TIME seconds after it
\* was written.
C3_Witness ==
    /\ result.op = "read_group_role_map"
    /\ result.ret # None
    /\ now - files[rolemap_path(result.args[1])].mtime = GROUP_ROLE_MAP_CACHE_TIME

\* C3 (as claimed): a role map that is served without an I/O error is a hit
\* when it is less than 3600 seconds old and a miss when it is 3600 seconds
\* old or older.
C3_AsClaimed ==
    [][IsCall("read_group_role_map") =>
          LET path == rolemap_path(result'.args[1])
              f == files[path]
              age == now - f.mtime
          IN  (/\ safe /\ f.exists /\ f.data.fmt = "json"
               /\ OwnerOnly(files'[path].mode)
               /\ "Unable to read role map" \notin Lines(result'.log))
                 => /\ age < GROUP_ROLE_MAP_CACHE_TIME => result'.ret = Some(f.data.val)
                    /\ age >= GROUP_ROLE_MAP_CACHE_TIME => result'.ret = None]_vars

\* C4 (as claimed): STS credentials that are read from an owner-only file
\* without an I/O error are a hit if and only if the instant their Expiration
\* names lies more than CLOCK_SKEW_ALLOWANCE seconds after the clock.
C4_StsHitIffUnexpired ==
    [][IsCall("read_sts_credentials") =>
          LET path == stscreds_path(result'.args[1])
              f == files[path]
          IN  (/\ safe /\ f.exists /\ f.data.fmt = "json"
               /\ "Expiration" \in DOMAIN f.data.val
               /\ OwnerOnly(files'[path].mode)
               /\ "Unable to read STS credentials" \notin Lines(result'.log))
                 => (result'.ret # None
                        <=> f.data.val.Expiration.t - now > CLOCK_SKEW_ALLOWANCE)]_vars

\* The token stored for a call of read_id_token, if the file holds one
StoredJwt(f) ==
    IF f.exists /\ f.data.fmt = "json" /\ "id_token" \in DOMAIN f.data.val
    THEN Some(f.data.val.id_token) ELSE None

\* C5: read_id_token is a miss, without an exception, whenever the stored
\* token fails validation against the key and the client id of the call,
\* whatever its exp claim; and a token is returned only if the stored token
\* passed that validation in the same call.
C5_InvalidTokenIsMiss ==
    [][(IsCall("read_id_token") /\ result'.args[1] # None /\ result'.args[2] # None) =>
          LET f == files[PathOf("read_id_token", result'.args)]
              key == result'.args[3]
              audience == result'.args[2][1]
              jwt == StoredJwt(f)
          IN  /\ (jwt # None /\ jwt_decode(jwt[1], key, audience) = None)
                    => result'.ret = None /\ result'.raised = ""
              /\ result'.ret # None
                    => /\ jwt # None
                       /\ jwt_decode(jwt[1], key, audience) # None
                       /\ result'.ret = Some(f.data.val)]_vars

\* A forged token whose exp claim lies far in the future was read from an
\* owner-only file, with the right key, and the call was a miss.
C5_Witness ==
    /\ safe
    /\ result.op = "read_id_token"
    /\ result.args = <<Some("x1"), Some("c1"), Some("key1")>>
    /\ result.ret = None
    /\ result.raised = ""
    /\ result.log = <<>>
    /\ LET f == files[id_path("x1", "c1")]
       IN  /\ f.exists
           /\ OwnerOnly(f.mode)
           /\ StoredJwt(f) = Some(ForgedJwt)
           /\ ForgedJwt.exp[1] - now > CLOCK_SKEW_ALLOWANCE

\* C6 (as claimed): on a safe cache root, a read of STS credentials from an
\* owner-only file, without an I/O error and more than CLOCK_SKEW_ALLOWANCE
\* seconds before the Expiration of the credentials last written for that
\* ARN, returns those credentials.
C6_ReadYourWrites ==
    [][IsCall("read_sts_credentials") =>
          LET role_arn == result'.args[1]
              path == stscreds_path(role_arn)
              last == written[role_arn]
          IN  (/\ safe
               /\ last # None
               /\ "Expiration" \in DOMAIN last[1]
               /\ last[1].Expiration.t - now > CLOCK_SKEW_ALLOWANCE
               /\ OwnerOnly(files'[path].mode)
               /\ "Unable to read STS credentials" \notin Lines(result'.log))
                 => result'.ret = last]_vars

\* The sections of the shared credentials file, if it holds an INI document
StoredSections(f) ==
    IF f.exists /\ f.data.fmt = "ini" THEN f.data.val ELSE <<>>

\* The sections of config that the input does not name are in the file
PreservedIn(config, credentials, f) ==
    \A i \in DOMAIN config :
        config[i].name \notin DOMAIN credentials
            => \E j \in DOMAIN StoredSections(f) : StoredSections(f)[j] = config[i]

\* C7 (amended): when write_aws_shared_credentials reads the existing file
\* (the file passes the permission check and is read without an I/O error)
\* and returns the path, every section of the file that the input does not
\* name is in the written file with all its keys and values unchanged.
C7_UnrelatedSectionsKept ==
    [][IsCall("write_aws_shared_credentials") =>
          LET f == files[credentials_path]
          IN  (/\ result'.ret # None
               /\ OwnerOnly(files'[credentials_path].mode)
               /\ "Unable to read credentials file" \notin Lines(result'.log))
                 => PreservedIn(StoredSections(f), result'.args[1],
                                files'[credentials_path])]_vars

\* Section [b] was merged into a file that held section [a], and [a] is
\* still there.
C7_Witness ==
    /\ result.op = "write_aws_shared_credentials"
    /\ result.ret # None
    /\ "Unable to read credentials file" \notin Lines(result.log)
    /\ DOMAIN result.args[1] = {"b"}
    /\ \E j \in DOMAIN StoredSections(files[credentials_path]) :
          StoredSections(files[credentials_path])[j] = Section("a", "k1" :> "v1")

\* C7 (as claimed): every section of the existing file that the input does
\* not name is in the file after a write that returns the path.
C7_AsClaimed ==
    [][IsCall("write_aws_shared_credentials") =>
          LET f == files[credentials_path]
          IN  result'.ret # None
                 => PreservedIn(StoredSections(f), result'.args[1],
                                files'[credentials_path])]_vars

\* C8 (as claimed): a call of write_aws_shared_credentials on an existing
\* credentials file that holds sections either returns the path, or leaves
\* the content of the file as it was.
C8_AllOrNothing ==
    [][(/\ IsCall("write_aws_shared_credentials")
        /\ files[credentials_path].exists
        /\ files[credentials_path].data.fmt = "ini") =>
          \/ result'.ret # None
          \/ files'[credentials_path].data = files[credentials_path].data]_vars

\* C9 (as claimed): no call of a cache operation lets an exception escape.
C9_NeverRaises == result.raised = ""

\* C10: once disable_caching() has been called, the flag stays false, no
\* file changes, and every call of a cache operation returns None without
\* an exception.
C10_DisabledForGood ==
    [][disabled =>
          /\ disabled' /\ ~safe /\ ~safe'
          /\ files' = files
          /\ calls' # calls => result'.ret = None /\ result'.raised = ""]_vars

\* After --no-cache, on a cache root that was found safe, a call that would
\* have found a cache file was suppressed.
C10_Witness ==
    /\ disabled
    /\ OwnerOnly(dirs.DOT_DIR.mode) /\ OwnerOnly(dirs.cache_dir.mode)
    /\ result.op = "read_sts_credentials"
    /\ result.log = <<"Cache directory has invalid permissions">>
    /\ files[stscreds_path("x1")].exists
    /\ files[stscreds_path("x1")].data.fmt = "json"

\* The call repeats the call before it: write_aws_shared_credentials with
\* the same input, both returning the path
RepeatedWrite ==
    /\ IsCall("write_aws_shared_credentials")
    /\ result.op = "write_aws_shared_credentials"
    /\ result.args = result'.args
    /\ result.ret # None
    /\ result'.ret # None

\* C11 (amended): when write_aws_shared_credentials is called twice in
\* succession with the same input, both calls return the path, and the
\* second call reads the file without an I/O error, the file after the
\* second call has the content it had after the first.
C11_MergeIdempotent ==
    [][(/\ RepeatedWrite
        /\ "Unable to read credentials file" \notin Lines(result'.log))
          => files'[credentials_path].data = files[credentials_path].data]_vars

\* The same section was merged twice into a file that held another section
\* before, and both calls returned the path.
C11_Witness ==
    /\ result.op = "write_aws_shared_credentials"
    /\ result.again
    /\ result.ret # None
    /\ "Unable to read credentials file" \notin Lines(result.log)
    /\ Len(StoredSections(files[credentials_path])) > Cardinality(DOMAIN result.args[1])

\* C11 (as claimed): the file after the second of two successive calls with
\* the same input is the file after the first.
C11_AsClaimed ==
    [][RepeatedWrite
          => files'[credentials_path].data = files[credentials_path].data]_vars

\* The names of the sections are in strictly ascending order, as Python
\* compares strings (by code point: "B" < "a" < "b")
Ascending(config) ==
    \A i, j \in DOMAIN config :
        i < j => CodePoint(config[i].name) < CodePoint(config[j].name)

\* C12: after a write_aws_shared_credentials that returned the path, the
\* sections of the file are in ascending order of their names (the order of
\* Python's sorted() on strings), whatever the order of the sections in the
\* file before and in the input.
C12_SortedSections ==
    (result.op = "write_aws_shared_credentials" /\ result.ret # None)
        => Ascending(StoredSections(files[credentials_path]))

\* A section was merged into a file whose sections were not in order, the
\* existing sections were read, and the file now holds all three in order.
C12_Witness ==
    /\ result.op = "write_aws_shared_credentials"
    /\ result.ret # None
    /\ calls = 1
    /\ DOMAIN result.args[1] = {"B"}
    /\ LET config == StoredSections(files[credentials_path])
       IN  /\ Len(config) = 3
           /\ <<config[1].name, config[2].name, config[3].name>> = <<"B", "a", "b">>

\* The existing credentials file cannot be used by the call: its text is no
\* INI document, or reading it fails, or it stays readable by others.
UnusableSource ==
    \/ files[credentials_path].data.fmt = "garbage"
    \/ "Unable to read credentials file" \in Lines(result'.log)
    \/ ~OwnerOnly(files'[credentials_path].mode)

\* C13 (as claimed): on a safe cache root, a write_aws_shared_credentials
\* that finds an existing file it cannot read or parse raises nothing and,
\* unless the write itself fails, returns the path and leaves a file that
\* holds exactly the sections of the input.
C13_UnreadableSourceIsEmpty ==
    [][(/\ IsCall("write_aws_shared_credentials")
        /\ safe
        /\ files[credentials_path].exists
        /\ UnusableSource) =>
          /\ result'.raised = ""
          /\ \/ "Unable to write AWS shared credentials" \in Lines(result'.log)
             \/ /\ result'.ret = Some(credentials_path)
                /\ StoredSections(files'[credentials_path])
                      = merged(<<>>, result'.args[1])]_vars

\* C14 (as claimed): a read of STS credentials never opens an empty or
\* partially written file, also while another process is writing it; it
\* finds no file, the complete previous document or the complete new one,
\* and no exception escapes from it.
C14_NoTornRead ==
    [][IsCall("read_sts_credentials") =>
          LET f == files[stscreds_path(result'.args[1])]
          IN  /\ f.exists => f.data.fmt = "json"
              /\ result'.raised = ""]_vars

\* C15 (as claimed): every call of a cache operation made while DOT_DIR or
\* cache_dir is group- or other-accessible is suppressed: it returns None
\* and leaves every file as it was, also when the directory was owner-only
\* at import.
C15_RecheckedPerCall ==
    [][(/\ calls' # calls
        /\ \/ ~OwnerOnly(dirs.DOT_DIR.mode)
           \/ ~OwnerOnly(dirs.cache_dir.mode)) =>
          /\ files' = files
          /\ result'.ret = None]_vars

\* What the body of a read function does in the current state when chmod
\* succeeds
ReadOutcome(op, args, open_ok) ==
    CASE op = "read_sts_credentials" ->
             read_sts_credentials_func(args[1], TRUE, open_ok)
      [] op = "read_group_role_map" ->
             read_group_role_map_func(args[1], TRUE, open_ok)
      [] op = "read_id_token" ->
             read_id_token_func(args[1], args[2], args[3], TRUE, open_ok)
      [] OTHER -> read_aws_shared_credentials_func(TRUE, open_ok)

\* A miss: None, or for read_aws_shared_credentials an empty ConfigParser
Miss(r) ==
    \/ r.ret = None
    \/ r.op = "read_aws_shared_credentials" /\ r.ret = Some(<<>>)

\* C16: a read returns content only from a file that has no group or other
\* bit when the read opens it.  For a file found with such a bit, the read
\* either leaves the mode as it is (chmod failed) and is a miss without an
\* exception, or sets the mode to 0600 and then does what the same read does
\* on the repaired file.
C16_FileGuard ==
    [][(calls' # calls /\ result'.op \in ReadOps /\ safe) =>
          LET path == PathOf(result'.op, result'.args)
              f == files[path]
              f2 == files'[path]
          IN  /\ ~Miss(result') => f.exists /\ OwnerOnly(f2.mode)
              /\ (f.exists /\ ~OwnerOnly(f.mode)) =>
                    \/ /\ files' = files
                       /\ Miss(result')
                       /\ result'.raised = ""
                    \/ /\ files' = [files EXCEPT ![path].mode = MODE_0600]
                       /\ \E open_ok \in BOOLEAN :
                             LET o == ReadOutcome(result.op, result.args, open_ok)'
                             IN  /\ result'.ret = o.ret
                                 /\ result'.raised = o.raised
                                 /\ result'.log = o.log]_vars

\* The first call read STS credentials from a file that was found with mode
\* 0644: the file now has mode 0600 and the credentials were returned.
C16_Witness ==
    /\ calls = 1
    /\ result.op = "read_sts_credentials"
    /\ result.ret = Some(FoundSts.val)
    /\ files[stscreds_path("x1")].mode = MODE_0600

\* C17: verify_dir_permissions(path) returns True only if the directory
\* exists on return with all owner bits and no group or other bit.  An
\* existing directory is left as it is and the verdict is exactly that test
\* of its mode.  A missing directory gets a True verdict exactly when it was
\* created and its mode was set to 0700; it stays missing when mkdir fails.
C17_VerifyDir ==
    [][IsCall("verify_dir_permissions") =>
          LET before == dirs[result'.args[1]]
              after == dirs'[result'.args[1]]
              ret == result'.ret[1]
          IN  /\ ret => /\ after.exists
                        /\ AndU(after.mode) = S_IRWXU
                        /\ OwnerOnly(after.mode)
              /\ before.exists =>
                    /\ after = before
                    /\ ret <=> (AndU(before.mode) = S_IRWXU /\ OwnerOnly(before.mode))
              /\ ~before.exists =>
                    /\ ret <=> (after.exists /\ after.mode = MODE_0700)
                    /\ ret <=> result'.log = <<"Successfully repaired permissions">>
                    /\ result'.log = <<"Unable to create directory">> => after = before
              /\ \A d \in DOMAIN dirs : d # result'.args[1] => dirs'[d] = dirs[d]]_vars

\* The cache directory was missing, was created, and the chmod to 0700
\* failed: the directory is there with the mode mkdir gave it and the verdict
\* is False.
C17_Witness ==
    /\ result.op = "verify_dir_permissions"
    /\ result.args = <<"cache_dir">>
    /\ result.log = <<"Failed to repair permissions">>
    /\ result.ret = Some(FALSE)
    /\ dirs.cache_dir = [exists |-> TRUE, mode |-> MkdirMode]

\* The options a section of the input leaves in the file: every key of the
\* input, under the name ConfigParser stores it (lower case), has the new
\* value; every other option the section had has its old value; there is no
\* other option.
MergedKeys(old_opts, new, opts) ==
    LET named == {optionxform(key) : key \in DOMAIN new}
    IN  /\ DOMAIN opts = DOMAIN old_opts \cup named
        /\ \A key \in DOMAIN new : opts[optionxform(key)] = new[key]
        /\ \A k \in DOMAIN old_opts \ named : opts[k] = old_opts[k]

\* Every section of the input is in the file with the merged options
MergedInto(old, credentials, config) ==
    \A n \in DOMAIN credentials :
        /\ n \in SectionNamesOf(config)
        /\ MergedKeys(IF n \in SectionNamesOf(old)
                      THEN old[IndexOf(old, n)].opts ELSE <<>>,
                      credentials[n],
                      config[IndexOf(config, n)].opts)

\* C18 (amended): when write_aws_shared_credentials reads the existing file
\* (it passes the permission check and is read without an I/O error) and
\* returns the path, every section of the input is in the file, every key
\* of the input has the new value there, and every key the section had
\* before that the input does not name has its previous value.
C18_KeyLevelMerge ==
    [][(/\ IsCall("write_aws_shared_credentials")
        /\ result'.ret # None
        /\ OwnerOnly(files'[credentials_path].mode)
        /\ "Unable to read credentials file" \notin Lines(result'.log)) =>
          MergedInto(StoredSections(files[credentials_path]), result'.args[1],
                     StoredSections(files'[credentials_path]))]_vars

\* A new key was set in section [a], which held key k1 before: the section
\* now has both.
C18_Witness ==
    /\ result.op = "write_aws_shared_credentials"
    /\ calls = 1
    /\ result.ret # None
    /\ "Unable to read credentials file" \notin Lines(result.log)
    /\ result.args[1] = ("a" :> ("K2" :> "v1"))
    /\ StoredSections(files[credentials_path])
          = <<Section("a", ("k1" :> "v1") @@ ("k2" :> "v1"))>>

\* C18 (as claimed): after every write_aws_shared_credentials that returns
\* the path, the sections of the input hold the merged options.
C18_AsClaimed ==
    [][(IsCall("write_aws_shared_credentials") /\ result'.ret # None) =>
          MergedInto(StoredSections(files[credentials_path]), result'.args[1],
                     StoredSections(files'[credentials_path]))]_vars

CacheWriteOps ==
    {"write_sts_credentials", "write_group_role_map", "write_id_token"}

\* What each read returns in the current state when no system call fails
ReturnedSts(role_arn) == read_sts_credentials_func(role_arn, TRUE, TRUE).ret

ReturnedRoleMap(url) == read_group_role_map_func(url, TRUE, TRUE).ret

ReturnedIdToken ==
    read_id_token_func(Some("x1"), Some("c1"), Some("key1"), TRUE, TRUE).ret

ReturnedCredentials == read_aws_shared_credentials_func(TRUE, TRUE).ret

\* C19: a write of STS credentials, of a role map or of an ID token changes
\* no file but the one of its own kind and identifier, and leaves what the
\* reads of every other kind and of every other identifier return, and the
\* shared credentials, as they were.
C19_Isolation ==
    [][(calls' # calls /\ result'.op \in CacheWriteOps) =>
          LET op == result'.op
              id == result'.args[1]
          IN  /\ \A p \in AllPaths \ {PathOf(op, result'.args)} :
                    files'[p] = files[p]
              /\ \A a \in RoleArns :
                    (op # "write_sts_credentials" \/ a # id)
                        => ReturnedSts(a)' = ReturnedSts(a)
              /\ \A u \in Urls :
                    (op # "write_group_role_map" \/ u # id)
                        => ReturnedRoleMap(u)' = ReturnedRoleMap(u)
              /\ op # "write_id_token" => ReturnedIdToken' = ReturnedIdToken
              /\ ReturnedCredentials' = ReturnedCredentials]_vars

\* STS credentials were written for the identifier under which a role map
\* is cached: the new credentials are in their file and the role map is
\* still served.
C19_Witness ==
    /\ result.op = "write_sts_credentials"
    /\ result.args = <<"x1">>
    /\ result.log = <<"Successfully wrote STS credentials">>
    /\ files[stscreds_path("x1")].data.val.AccessKeyId = "AK2"
    /\ files[rolemap_path("x1")].data = json_dump("roles1")
    /\ ReturnedRoleMap("x1") = Some("roles1")

\* The role map cached for url is older than GROUP_ROLE_MAP_CACHE_TIME
RoleMapExpired(url) ==
    LET f == files[rolemap_path(url)]
    IN  f.exists /\ now - f.mtime > GROUP_ROLE_MAP_CACHE_TIME

\* The STS credentials cached for role_arn are within CLOCK_SKEW_ALLOWANCE
\* of their Expiration as the read computes it, or past it
StsExpired(role_arn) ==
    LET f == files[stscreds_path(role_arn)]
    IN  /\ f.exists
        /\ f.data.fmt = "json"
        /\ "Expiration" \in DOMAIN f.data.val
        /\ timestamp(strptime(f.data.val.Expiration).val) - now <= CLOCK_SKEW_ALLOWANCE

\* C20: a read, hit or miss, leaves the existence, the content and the
\* modification time of every file as they were.  The modification time of
\* a role map file changes only in a write_group_role_map for its URL.  A
\* role map or STS credentials that have expired stay expired, and are a
\* miss for every read, until a write for the same key.
C20_ReadsPreserve ==
    [][/\ (calls' # calls /\ result'.op \in ReadOps) =>
             \A p \in AllPaths :
                 /\ files'[p].exists = files[p].exists
                 /\ files'[p].data = files[p].data
                 /\ files'[p].mtime = files[p].mtime
       /\ \A u \in Urls :
             LET written_now == IsCall("write_group_role_map") /\ result'.args = <<u>>
             IN  /\ files'[rolemap_path(u)].mtime # files[rolemap_path(u)].mtime
                       => written_now
                 /\ (RoleMapExpired(u) /\ ~written_now) => RoleMapExpired(u)'
                 /\ (RoleMapExpired(u) /\ IsCall("read_group_role_map")
                        /\ result'.args = <<u>>) => result'.ret = None
       /\ \A a \in RoleArns :
             LET written_now == IsCall("write_sts_credentials") /\ result'.args = <<a>>
             IN  /\ (StsExpired(a) /\ ~written_now) => StsExpired(a)'
                 /\ (StsExpired(a) /\ IsCall("read_sts_credentials")
                        /\ result'.args = <<a>>) => result'.ret = None]_vars

\* The first call read a role map that had expired from a file found with
\* mode 0644: the read repaired the mode, was a miss, and the file has the
\* content and the modification time it was found with.
C20_Witness ==
    /\ calls = 1
    /\ now = LaterInstant
    /\ result.op = "read_group_role_map"
    /\ result.ret = None
    /\ files[rolemap_path("x1")] = File(MODE_0600, json_dump("roles1"), 0)

====
